---- MODULE Spec2Model ----
(***************************************************************************)
(* Model of the unified prediction API (src/models/unified_api.py).        *)
(*                                                                         *)
(* The master endpoint predict_all calls the four subsystem endpoints      *)
(* predict_dpf, predict_scr, predict_oil and predict_anomaly in that       *)
(* order, each inside its own try/except, appends one ModelResult per      *)
(* call to the list `results`, and then aggregates the list into one       *)
(* UnifiedResponse (or raises HTTP 500 when no RUL model succeeded).       *)
(*                                                                         *)
(* The four endpoints are modelled at their return value: a call either    *)
(* raises or returns a ModelResult whose rul_days, failure_probability and *)
(* signal_health_score are drawn independently of one another, so the      *)
(* aggregation is explored over every combination of ModelResult fields    *)
(* it can be handed (a superset of the combinations the endpoints compute  *)
(* from one telemetry window).                                             *)
(*                                                                         *)
(* Numbers.  Python floats are modelled as fixed-point integers: the       *)
(* integer x stands for x / Unit.  round(v, 2) and round(v, 4) are the     *)
(* operators Round2 and Round4; they are not the identity on the values    *)
(* the subsystem endpoints compute (those are drawn on a finer grid than   *)
(* the one the rounding produces).                                         *)
(*                                                                         *)
(* Optional[...] fields: None is the empty sequence <<>>, a present value  *)
(* v is the one-element sequence <<v>>.                                    *)
(*                                                                         *)
(* Three specifications share the variables.  Spec is predict_all on the   *)
(* ModelResults it can be handed.  SpecCalc calls the scoring functions    *)
(* (the signal health scores, health_score_to_rul,                         *)
(* corrected_failure_probability, the verdict of predict_anomaly) on       *)
(* arguments drawn from grids.  SpecEndpoints serves two requests, each to *)
(* one of the five endpoints, on telemetry windows: there rul_days and     *)
(* failure_probability are computed from the window and the model output,  *)
(* and the requests share the global numpy random state.                   *)
(***************************************************************************)
EXTENDS Integers, Sequences, FiniteSets

VARIABLES
    pc,         \* position of the request inside predict_all
    results,    \* the local list `results` of predict_all
    response,   \* None, or the UnifiedResponse returned
    http_error, \* None, or the status code of the HTTPException raised by predict_all
    calc,       \* one call of a pure scoring function: its arguments and its return value
    rng,        \* the process-wide numpy random state: the number of draws taken so far
    reqs        \* the requests being served by the subsystem endpoints, one record each

vars == <<pc, results, response, http_error, calc, rng, reqs>>

\* The variables of predict_all, and those of the subsystem endpoints and the
\* scoring functions they call.
aggregation_vars == <<pc, results, response, http_error>>
endpoint_vars == <<calc, rng, reqs>>

(***************************************************************************)
(* Fixed-point arithmetic                                                  *)
(***************************************************************************)

\* 1.0 in model units: ten units for every 0.0001, the finest grid the code rounds
\* to (round(v, 4)), so that values between two grid points exist.
Unit == 10 * 10000

None == <<>>
Some(v) == <<v>>

\* Python's round of v to a multiple of q model units (ties go to the even multiple).
RoundTo(v, q) ==
    LET lo  == (v \div q) * q
        rem == v - lo
    IN  IF 2 * rem < q THEN lo
        ELSE IF 2 * rem > q THEN lo + q
        ELSE IF (lo \div q) % 2 = 0 THEN lo ELSE lo + q

\* round(v, 2)
Round2(v) == RoundTo(v, Unit \div 100)

\* round(v, 4)
Round4(v) == RoundTo(v, Unit \div 10000)

Min2(a, b) == IF a <= b THEN a ELSE b

(***************************************************************************)
(* Values the subsystem endpoints compute before they round them, in model *)
(* units.  After rounding, each set holds every threshold the decision     *)
(* engine compares against and a value on either side of it.               *)
(***************************************************************************)

\* RUL in days: 10, 15, 20.996, 30.003, 40, 54.998, 70, 80, 90.
RawRul ==
    { 10 * Unit, 15 * Unit, 21 * Unit - 400, 30 * Unit + 300, 40 * Unit,
      55 * Unit - 200, 70 * Unit, 80 * Unit, 90 * Unit }

\* Failure probability: 0.5, 0.54996, 0.59996, 0.95.
RawProb == { 50000, 54996, 59996, 95000 }

\* The third subsystem called (Oil) is drawn from a coarser grid, one value for each
\* side of the thresholds, to keep the product of the three within reach.
OilRawRul == { 15 * Unit, 40 * Unit, 80 * Unit, 90 * Unit }
OilRawProb == { 50000, 59996 }

\* Signal health score: 0.5, 0.84996.
RawHealth == { 50000, 84996 }

\* Worst (minimum) window score of the anomaly model: -0.10501, -0.105.
RawScore == { -10501, -10500 }

(***************************************************************************)
(* ModelResult                                                             *)
(***************************************************************************)

ModelResult(model, rul_days, failure_probability, anomaly_score, is_anomaly, status, error, details) ==
    [ model |-> model, rul_days |-> rul_days,
      failure_probability |-> failure_probability,
      anomaly_score |-> anomaly_score, is_anomaly |-> is_anomaly,
      status |-> status, error |-> error, details |-> details ]

\* The ModelResult predict_dpf, predict_scr and predict_oil return.
RulResult(model, rul, prob, health) ==
    ModelResult(model, Some(Round2(rul)), Some(Round4(prob)),
                None, None, "success", None,
                Some([signal_health_score |-> Round4(health)]))

anomaly_threshold == -10500

\* Variant: a worst score equal to the threshold is flagged too.
AnomalyResult_at_threshold(worst_score) ==
    ModelResult("anomaly", None, None, Some(Round4(worst_score)),
                Some(worst_score <= anomaly_threshold), "success", None,
                Some([threshold |-> Round4(anomaly_threshold)]))

\* The ModelResult predict_anomaly returns.
AnomalyResult(worst_score) ==
    ModelResult("anomaly", None, None, Some(Round4(worst_score)),
                Some(worst_score < anomaly_threshold), "success", None,
                Some([threshold |-> Round4(anomaly_threshold)]))

\* The ModelResult an except branch of predict_all appends.
ErrorResult(model) ==
    ModelResult(model, None, None, None, None, "error", Some("error"), None)

(***************************************************************************)
(* List helpers (Python list comprehensions, min and max with a key)       *)
(***************************************************************************)

rul_of(r) == r.rul_days[1]
prob_of(r) == r.failure_probability[1]

\* min(s, key=lambda r: r.rul_days): a left-to-right scan that replaces the best
\* element only by a strictly smaller one, so the first least element wins.
RECURSIVE min_rul_scan(_, _)
min_rul_scan(best, rest) ==
    IF rest = <<>> THEN best
    ELSE min_rul_scan(IF rul_of(Head(rest)) < rul_of(best) THEN Head(rest) ELSE best,
                      Tail(rest))

\* Variant: among equal rul_days the last element wins.
min_by_rul_last(s) ==
    LET least == rul_of(min_rul_scan(Head(s), Tail(s)))
        last  == CHOOSE i \in 1..Len(s) :
                    /\ rul_of(s[i]) = least
                    /\ \A j \in (i + 1)..Len(s) : rul_of(s[j]) # least
    IN  s[last]

min_by_rul(s) == min_rul_scan(Head(s), Tail(s))

\* max(s, key=lambda r: r.failure_probability): the first greatest element wins.
RECURSIVE max_prob_scan(_, _)
max_prob_scan(best, rest) ==
    IF rest = <<>> THEN best
    ELSE max_prob_scan(IF prob_of(Head(rest)) > prob_of(best) THEN Head(rest) ELSE best,
                       Tail(rest))

max_by_prob(s) == max_prob_scan(Head(s), Tail(s))

(***************************************************************************)
(* predict_all: aggregation                                                *)
(***************************************************************************)

is_rul_model(r) == r.status = "success" /\ r.rul_days # None
rul_models(rs) == SelectSeq(rs, is_rul_model)

is_prob_model(r) == r.status = "success" /\ r.failure_probability # None
prob_models(rs) == SelectSeq(rs, is_prob_model)

is_anomaly_ok(r) == r.model = "anomaly" /\ r.status = "success"
anomaly_res_ok(rs) == SelectSeq(rs, is_anomaly_ok)

\* Variant: the request is given up as soon as any RUL model failed.
aggregation_impossible_any_failed(rs) == Len(rul_models(rs)) < 3

\* if not rul_models: raise HTTPException(500, ...)
aggregation_impossible(rs) == rul_models(rs) = <<>>

worst(rs) == min_by_rul(rul_models(rs))
\* Variant: the RUL of the first successful model instead of the minimum.
eta_days_first(rs) == rul_models(rs)[1].rul_days[1]

eta_days(rs) == worst(rs).rul_days[1]

\* max((r.failure_probability for r in prob_models), default=0.5)
max_probability(rs) ==
    IF prob_models(rs) = <<>> THEN Unit \div 2
    ELSE prob_of(max_by_prob(prob_models(rs)))

\* Variant: a failed anomaly call counts as a flagged anomaly.
is_anomaly_unless_ok(rs) ==
    anomaly_res_ok(rs) = <<>> \/ anomaly_res_ok(rs)[1].is_anomaly = Some(TRUE)

is_anomaly(rs) ==
    anomaly_res_ok(rs) # <<>> /\ anomaly_res_ok(rs)[1].is_anomaly = Some(TRUE)

anomaly_boost(c) == Min2(Unit, c + Unit \div 10)

\* Variant: the boost is applied whenever the anomaly call succeeded, flagged or not.
confidence_boost_on_success(rs) ==
    IF anomaly_res_ok(rs) # <<>> THEN anomaly_boost(max_probability(rs))
    ELSE max_probability(rs)

confidence(rs) ==
    IF is_anomaly(rs) THEN anomaly_boost(max_probability(rs)) ELSE max_probability(rs)

\* Variant: the name of the model is used as the label.
type_map_model_name(model, default) == model

\* Variant: every model is given the label of the subsystem after it.
type_map_shifted(model, default) ==
    CASE model = "dpf" -> "scr_failure"
      [] model = "scr" -> "oil_failure"
      [] model = "oil" -> "dpf_failure"
      [] OTHER -> default

\* type_map.get(model, default)
type_map(model, default) ==
    CASE model = "dpf" -> "dpf_failure"
      [] model = "scr" -> "scr_failure"
      [] model = "oil" -> "oil_failure"
      [] OTHER -> default

\* Variant: a worst RUL of exactly 30 days is overridden too.
anomaly_override_at_30(rs) == is_anomaly(rs) /\ eta_days(rs) >= 30 * Unit

anomaly_override(rs) == is_anomaly(rs) /\ eta_days(rs) > 30 * Unit

\* Variant: a worst RUL of exactly 55 days is not healthy.
healthy_rule_above_55(rs) == eta_days(rs) > 55 * Unit

healthy_rule(rs) == eta_days(rs) >= 55 * Unit

is_critical_by_rul(r) == r.rul_days # None /\ rul_of(r) < 21 * Unit
critical_by_rul(rs) == SelectSeq(rul_models(rs), is_critical_by_rul)

is_critical_by_prob(r) ==
    r.failure_probability # None /\ prob_of(r) >= (6 * Unit) \div 10
critical_by_prob(rs) == SelectSeq(prob_models(rs), is_critical_by_prob)

\* Variant: only the RUL count decides the cascade.
cascade_condition_rul_only(rs) == Len(critical_by_rul(rs)) >= 2

cascade_condition(rs) ==
    Len(critical_by_rul(rs)) >= 2 \/ Len(critical_by_prob(rs)) >= 2

\* The entries of the dict signal_health: subsystems with RUL < 70 that report a
\* signal health score.
in_signal_health(r) ==
    /\ rul_of(r) < 70 * Unit
    /\ r.details # None
    /\ "signal_health_score" \in DOMAIN r.details[1]

\* Variant: only a health score below 0.5 counts as degraded.
is_degraded_below_half(r) ==
    in_signal_health(r) /\ r.details[1].signal_health_score < Unit \div 2

\* degraded, as the results whose model name is in the list `degraded`.
is_degraded(r) ==
    in_signal_health(r) /\ r.details[1].signal_health_score < (85 * Unit) \div 100
degraded_models(rs) == SelectSeq(rul_models(rs), is_degraded)

\* Variant: the worst RUL over all successful models, degraded or not.
chosen_worst(rs) == min_by_rul(rul_models(rs))

chosen(rs) == min_by_rul(degraded_models(rs))

prob_winner(rs) == max_by_prob(prob_models(rs))

\* Variant: the probability fallback needs 0.6.
probability_notable_at_60(r) == prob_of(r) >= (6 * Unit) \div 10

probability_notable(r) == prob_of(r) >= (55 * Unit) \div 100

\* The else branch of the decision (lines 833-865).
failure_type(rs) ==
    LET default == type_map(worst(rs).model, "cascade_failure")
    IN  IF cascade_condition(rs) THEN "cascade_failure"
        ELSE IF degraded_models(rs) # <<>>
             THEN type_map(chosen(rs).model, default)
        ELSE IF prob_models(rs) # <<>> /\ probability_notable(prob_winner(rs))
             THEN type_map(prob_winner(rs).model, default)
        ELSE default

prediction_type(rs) ==
    IF anomaly_override(rs) THEN "anomaly"
    ELSE IF healthy_rule(rs) THEN "healthy"
    ELSE failure_type(rs)

\* signals["anomaly"]; the per-sensor summaries of extract_signal_summary depend
\* only on the telemetry columns and are left out.
signals(rs) ==
    IF anomaly_res_ok(rs) # <<>>
    THEN Some([score |-> anomaly_res_ok(rs)[1].anomaly_score,
               is_anomaly |-> is_anomaly(rs)])
    ELSE None

model_output(r) ==
    [ status |-> r.status, rul_days |-> r.rul_days,
      failure_probability |-> r.failure_probability,
      anomaly_score |-> r.anomaly_score, is_anomaly |-> r.is_anomaly,
      details |-> r.details, error |-> r.error ]

model_outputs(rs) ==
    [ m \in { rs[i].model : i \in 1..Len(rs) } |->
        model_output(rs[CHOOSE i \in 1..Len(rs) :
            /\ rs[i].model = m
            /\ \A j \in 1..Len(rs) : rs[j].model = m => j <= i]) ]

UnifiedResponse(rs) ==
    [ predictionType |-> prediction_type(rs),
      confidence |-> Round4(Min2(confidence(rs), Unit)),
      etaDays |-> Round2(eta_days(rs)),
      signals |-> signals(rs),
      modelOutputs |-> model_outputs(rs),
      source |-> "unified_ml",
      individualResults |-> rs ]

(***************************************************************************)
(* predict_all: the steps of one request                                   *)
(***************************************************************************)

Init ==
    /\ pc = "dpf"
    /\ results = <<>>
    /\ response = None
    /\ http_error = None
    /\ calc = None
    /\ rng = 0
    /\ reqs = <<>>

\* results.append(res) in a try branch.
record_result(rs, res) == Append(rs, res)

\* Variant: the except branch starts the list over instead of appending to it.
record_error_overwrite(rs, model) == <<ErrorResult(model)>>

\* results.append(ModelResult(model=..., status="error", error=str(e))) in an
\* except branch.
record_error(rs, model) == Append(rs, ErrorResult(model))

\* Variant: a failed subsystem ends the calls, and the aggregation starts
\* without the subsystems after it.
CallRulModel_abort_on_error(model, next, ruls, probs) ==
    /\ pc = model
    /\ \/ /\ \E r \in ruls, p \in probs, h \in RawHealth :
               results' = record_result(results, RulResult(model, r, p, h))
          /\ pc' = next
       \/ /\ results' = record_error(results, model)
          /\ pc' = "aggregate"
    /\ UNCHANGED <<response, http_error>>
    /\ UNCHANGED endpoint_vars

\* One try/except block around predict_dpf, predict_scr or predict_oil: the
\* endpoint returns a ModelResult, or raises and the except branch records it.
CallRulModel(model, next, ruls, probs) ==
    /\ pc = model
    /\ \/ \E r \in ruls, p \in probs, h \in RawHealth :
            results' = record_result(results, RulResult(model, r, p, h))
       \/ results' = record_error(results, model)
    /\ pc' = next
    /\ UNCHANGED <<response, http_error>>
    /\ UNCHANGED endpoint_vars

CallDPF == CallRulModel("dpf", "scr", RawRul, RawProb)

CallSCR == CallRulModel("scr", "oil", RawRul, RawProb)

CallOil == CallRulModel("oil", "anomaly", OilRawRul, OilRawProb)

CallAnomaly ==
    /\ pc = "anomaly"
    /\ \/ \E s \in RawScore : results' = record_result(results, AnomalyResult(s))
       \/ results' = record_error(results, "anomaly")
    /\ pc' = "aggregate"
    /\ UNCHANGED <<response, http_error>>
    /\ UNCHANGED endpoint_vars

Aggregate ==
    /\ pc = "aggregate"
    /\ IF aggregation_impossible(results)
       THEN /\ http_error' = Some(500)
            /\ response' = None
            /\ pc' = "fatal"
       ELSE /\ response' = Some(UnifiedResponse(results))
            /\ http_error' = None
            /\ pc' = "done"
    /\ UNCHANGED results
    /\ UNCHANGED endpoint_vars

\* The server takes the next request: predict_all starts again with fresh locals.
NewRequest ==
    /\ pc \in {"done", "fatal"}
    /\ pc' = "dpf"
    /\ results' = <<>>
    /\ response' = None
    /\ http_error' = None
    /\ UNCHANGED endpoint_vars

Next ==
    \/ CallDPF
    \/ CallSCR
    \/ CallOil
    \/ CallAnomaly
    \/ Aggregate
    \/ NewRequest

Spec == Init /\ [][Next]_vars

(***************************************************************************)
(* The scoring functions of the subsystem endpoints                        *)
(*                                                                         *)
(* A telemetry window is modelled by the statistics the scoring functions  *)
(* read from it.  Sensor statistics are integers in hundredths of the      *)
(* sensor's unit (4500 is a soot load of 45 %), the oil-pressure slope is  *)
(* in 1e-7 bar per sample; scores are in model units (Unit is 1.0).        *)
(***************************************************************************)

DPF_THRESHOLDS ==
    [ soot_load_pct_est  |-> [healthy |-> 4500, critical |-> 8000],
      failed_regen_count |-> [healthy |-> 500,  critical |-> 2000],
      dpf_delta_p        |-> [healthy |-> 800,  critical |-> 1200] ]

SCR_THRESHOLDS ==
    [ nox_conversion_pct |-> [healthy |-> 9000, critical |-> 6000],
      nox_down_ppm       |-> [healthy |-> 1500, critical |-> 6000] ]

OIL_THRESHOLDS ==
    [ oil_level_l        |-> [healthy |-> 510, critical |-> 650],
      oil_pressure_bar   |-> [healthy |-> 190, critical |-> 120],
      oil_level_change   |-> [healthy |-> 5,   critical |-> 120],
      oil_pressure_slope |-> [healthy |-> 0,   critical |-> -500] ]

Abs(x) == IF x < 0 THEN -x ELSE x

\* np.clip(x, lo, hi)
np_clip(x, lo, hi) == IF x < lo THEN lo ELSE IF x > hi THEN hi ELSE x

\* The float quotient num / den of two sensor differences, in model units.
Ratio(num, den) == (num * Unit) \div den

RECURSIVE SumSeq(_)
SumSeq(s) == IF s = <<>> THEN 0 ELSE s[1] + SumSeq(Tail(s))

\* np.mean(scores)
np_mean(s) == SumSeq(s) \div Len(s)

\* Variant: the deviation from the healthy threshold is not clipped.
higher_is_worse_unclipped(v, t) ==
    Unit - Ratio(v - t.healthy, t.critical - t.healthy)

\* 1.0 - np.clip((v - t["healthy"]) / (t["critical"] - t["healthy"]), 0, 1)
higher_is_worse(v, t) ==
    Unit - np_clip(Ratio(v - t.healthy, t.critical - t.healthy), 0, Unit)

\* np.clip((v - t["critical"]) / (t["healthy"] - t["critical"]), 0, 1)
lower_is_worse(v, t) ==
    np_clip(Ratio(v - t.critical, t.healthy - t.critical), 0, Unit)

\* The oil-pressure slope indicator: flat or rising is healthy.
slope_score(slope, t) ==
    IF slope >= t.healthy THEN Unit
    ELSE Unit - np_clip(Ratio(t.healthy - slope, t.healthy - t.critical), 0, Unit)

\* The list `scores` of dpf_signal_health_score.  w.dp_mean is the mean of
\* downstream - upstream pressure (or of the dpf_delta_p column).
dpf_scores(w) ==
    << higher_is_worse(w.soot_mean, DPF_THRESHOLDS.soot_load_pct_est),
       higher_is_worse(w.regen_last, DPF_THRESHOLDS.failed_regen_count),
       higher_is_worse(Abs(w.dp_mean), DPF_THRESHOLDS.dpf_delta_p) >>

dpf_signal_health_score(w) == np_mean(dpf_scores(w))

\* The list `scores` of scr_signal_health_score.
scr_scores(w) ==
    << lower_is_worse(w.conv_mean, SCR_THRESHOLDS.nox_conversion_pct),
       higher_is_worse(w.nox_mean, SCR_THRESHOLDS.nox_down_ppm) >>

scr_signal_health_score(w) == np_mean(scr_scores(w))

\* The list `scores` of oil_signal_health_score.  w.n is len(df): the level
\* change of the last quarter over the first is scored only when a quarter
\* has at least one row.
oil_scores(w) ==
    << higher_is_worse(w.level_mean, OIL_THRESHOLDS.oil_level_l),
       lower_is_worse(w.pressure_mean, OIL_THRESHOLDS.oil_pressure_bar) >>
    \o (IF w.n \div 4 > 0
        THEN << higher_is_worse(w.level_change, OIL_THRESHOLDS.oil_level_change) >>
        ELSE << >>)
    \o << slope_score(w.pressure_slope, OIL_THRESHOLDS.oil_pressure_slope) >>

oil_signal_health_score(w) == np_mean(oil_scores(w))

\* score ** 1.8, to four decimals: the ninth power of the fifth root.  PowMul
\* is the product of two numbers with four decimals.
PowUnit == Unit \div 10

PowMul(a, b) == (a * b) \div PowUnit

Pow5(r) == PowMul(PowMul(PowMul(PowMul(r, r), r), r), r)

RECURSIVE Root5Search(_, _, _)
Root5Search(x, lo, hi) ==
    IF lo >= hi THEN lo
    ELSE LET mid == (lo + hi) \div 2
         IN  IF Pow5(mid) >= x THEN Root5Search(x, lo, mid)
             ELSE Root5Search(x, mid + 1, hi)

\* The least r with r ** 5 >= x.
Root5(x) == Root5Search(x, 0, PowUnit)

\* Variant: a steeper curve, score ** 5.
pow_5(score) == Pow5(score \div (Unit \div PowUnit)) * (Unit \div PowUnit)

pow_1_8(score) ==
    LET r == Root5(score \div (Unit \div PowUnit))
    IN  PowMul(Pow5(r), PowMul(PowMul(PowMul(r, r), r), r)) * (Unit \div PowUnit)

min_rul == 5 * Unit
max_rul_days == 90 * Unit

Max2(a, b) == IF a >= b THEN a ELSE b

\* Variant: the curve starts at 0 days, without the floor of min_rul.
health_score_to_rul_unfloored(score) ==
    Round2((max_rul_days \div Unit) * pow_1_8(score))

\* Variant: the mapping runs the wrong way, a healthy score gives the short RUL.
health_score_to_rul_inverted(score) ==
    Round2(Max2(min_rul, min_rul + ((max_rul_days - min_rul) \div Unit) * (Unit - pow_1_8(score))))

\* rul = min_rul + (max_rul_days - min_rul) * (score ** 1.8);
\* return round(max(min_rul, rul), 2)
health_score_to_rul(score) ==
    Round2(Max2(min_rul, min_rul + ((max_rul_days - min_rul) \div Unit) * pow_1_8(score)))

\* Variant: the health score is used where the signal probability belongs.
corrected_failure_probability_by_health(model_prob, health_score) ==
    RoundTo(np_clip(4 * model_prob + 6 * health_score, 0, 10 * Unit), 100) \div 10

\* combined = 0.4 * model_prob + 0.6 * (1.0 - health_score), computed in tenths
\* of a model unit; return round(np.clip(combined, 0.0, 1.0), 4)
corrected_failure_probability(model_prob, health_score) ==
    LET signal_prob == Unit - health_score
        combined    == 4 * model_prob + 6 * signal_prob
    IN  RoundTo(np_clip(combined, 0, 10 * Unit), 100) \div 10

\* np.argmin(scores), 1-based: the first index of the least score.
np_argmin(scores) ==
    CHOOSE i \in 1..Len(scores) :
        /\ \A j \in 1..Len(scores) : scores[i] <= scores[j]
        /\ \A j \in 1..(i - 1) : scores[j] > scores[i]

\* Variant: the score of the last window is reported.
worst_window_last(scores) == Len(scores)

\* worst_idx = int(np.argmin(scores))
worst_window(scores) == np_argmin(scores)

\* The return value of predict_anomaly for the window scores of the model.
predict_anomaly_result(scores) ==
    [ result |-> AnomalyResult(scores[worst_window(scores)]),
      window_index |-> worst_window(scores) - 1 ]

(***************************************************************************)
(* The scoring functions called on their own: calc holds the arguments of  *)
(* one call and, once the function has returned, its return value.  The    *)
(* health scores are called on two windows, so that the scores of a window *)
(* and of a worse one can be compared.                                     *)
(***************************************************************************)

DpfWindows ==
    [ soot_mean  : {3000, 4500, 6250, 8000, 12500},
      regen_last : {0, 500, 1200, 3600},
      dp_mean    : {-1800, -1000, -500, 900, 1200} ]

ScrWindows ==
    [ conv_mean : {5000, 6000, 7500, 9000, 9800},
      nox_mean  : {500, 1500, 3000, 6000, 12000} ]

OilWindows ==
    [ n              : {3, 2016},
      level_mean     : {500, 580, 700},
      pressure_mean  : {100, 155, 200},
      level_change   : {-10, 60, 150},
      pressure_slope : {20, -250, -900} ]

\* Health scores 0, 0.025, ..., 1 and two off the grid of four decimals.
HealthScores == { k * (Unit \div 40) : k \in 0..40 } \cup {49996, 84996}

ModelProbs == {0, 25000, 54996, 75004, Unit}

CoarseHealthScores == {0, 15004, 50000, 84996, Unit}

\* Window scores of the isolation forest: -0.12, -0.10501, -0.105, -0.09.
WindowScores == {-12000, -10501, -10500, -9000}

MaxWindows == 3

ScoreLists == UNION { [1..n -> WindowScores] : n \in 1..MaxWindows }

(***************************************************************************)
(* The subsystem endpoints on a telemetry window                           *)
(*                                                                         *)
(* A request carries a window: its number of rows, the groups of columns   *)
(* its rows have ("sensors": the raw sensor columns of the datasets,       *)
(* "oil_inputs": fuel_consumption_lph, exhaust_backpressure_kpa and        *)
(* boost_pressure_kpa) and the statistics the scoring functions read.  An  *)
(* empty window has no rows and, as pd.DataFrame([]), no columns.          *)
(* The trained models are external: what they return for a feature array   *)
(* is chosen freely.                                                       *)
(***************************************************************************)

DPF_SEQ_LEN == 288
SCR_SEQ_LEN == 288 * 7
OIL_SEQ_LEN == 2016
ANOMALY_WINDOW == 6

HealthyTelemetry ==
    [ dpf |-> [soot_mean |-> 3000, regen_last |-> 0, dp_mean |-> -500],
      scr |-> [conv_mean |-> 9800, nox_mean |-> 500],
      oil |-> [level_mean |-> 500, pressure_mean |-> 200,
               level_change |-> -10, pressure_slope |-> 20] ]

WornTelemetry ==
    [ dpf |-> [soot_mean |-> 6250, regen_last |-> 1200, dp_mean |-> -1000],
      scr |-> [conv_mean |-> 7500, nox_mean |-> 3000],
      oil |-> [level_mean |-> 580, pressure_mean |-> 155,
               level_change |-> 60, pressure_slope |-> -250] ]

Windows ==
    { [rows |-> 0, columns |-> {}, signals |-> None] }
    \cup { [rows |-> n, columns |-> c, signals |-> Some(s)] :
             n \in {5, 287, 2015, 2016},
             c \in {{"sensors"}, {"sensors", "oil_inputs"}},
             s \in {HealthyTelemetry, WornTelemetry} }
    \cup { [rows |-> ANOMALY_WINDOW, columns |-> {"sensors"}, signals |-> Some(HealthyTelemetry)] }
    \cup { [rows |-> DPF_SEQ_LEN, columns |-> {"sensors"}, signals |-> Some(s)] :
             s \in {HealthyTelemetry, WornTelemetry} }

\* What dpf_model, scr_model and oil_model can return: the raw RUL in days and
\* the raw failure probability.
ModelOutputs ==
    { [rul_days |-> 90 * Unit, prob |-> 25000],
      [rul_days |-> 20 * Unit, prob |-> 75004] }

\* What the isolation forest can return as its least window score.
WorstScores == {-9000, -12000}

\* How a call of an endpoint ends: it returns a value, raises an HTTPException
\* with a status code, or raises another exception, which the server answers
\* with status 500 when nothing catches it.
Returns(value) == [kind |-> "return", status_code |-> 200, value |-> Some(value)]
HTTPException(code) == [kind |-> "HTTPException", status_code |-> code, value |-> None]
Raises(exception) == [kind |-> exception, status_code |-> 500, value |-> None]

\* The array handed to a model: a function of the window and of the noise
\* vectors drawn from np.random while it was built.
Features(w, noise) == [window |-> w, noise |-> noise]

\* Variant: the endpoint reports the outputs of the model as they are.
signal_correction_skipped(model, out, health) ==
    RulResult(model, out.rul_days, out.prob, health)

\* health = ..._signal_health_score(df); corrected_rul = health_score_to_rul(health);
\* corrected_prob = corrected_failure_probability(raw_prob, health); ModelResult(...)
signal_correction(model, out, health) ==
    RulResult(model, health_score_to_rul(health),
              corrected_failure_probability(out.prob, health), health)

(***************************************************************************)
(* Feature builders.  A telemetry row is modelled by the two DPF pressure   *)
(* columns (in hundredths of a kPa) where the differential is concerned.    *)
(* A data frame is modelled, where only its rows count, by its groups of    *)
(* rows (one per vehicle_id, in order): the number of rows of the group    *)
(* and how many of them, the leading ones, hold a NaN in some column.       *)
(***************************************************************************)

\* predict_dpf: window["dpf_delta_p"], when the column is not given.
dpf_delta_p(row) == row.downstream - row.upstream

\* dpf_signal_health_score: dp, when the column dpf_delta_p is not given.
dp(row) == row.downstream - row.upstream

\* dp_mean_abs = abs(dp.mean())
dp_mean_abs(rows) == Abs(np_mean([i \in DOMAIN rows |-> dp(rows[i])]))

\* anomaly_add_physics: out["feat_dpf_delta"]
feat_dpf_delta(row) == row.upstream - row.downstream

ANOMALY_RAW_COLS ==
    << "engine_powertrain.engine_rpm", "engine_powertrain.engine_load_pct",
       "vehicle_dynamics.speed_kmh", "dpf.diff_pressure_kpa_upstream",
       "dpf.diff_pressure_kpa_downstream", "dpf.pre_dpf_temp_c",
       "dpf.post_dpf_temp_c", "scr.nox_up_ppm", "scr.nox_down_ppm",
       "scr.scr_inlet_temp_c", "scr.scr_outlet_temp_c",
       "def.injector_duty_cycle_pct", "def.def_pump_pressure_bar",
       "def.def_pump_current_a", "def.def_quality_index",
       "can_bus.message_drop_rate" >>

\* The columns of anomaly_add_physics(df[ANOMALY_RAW_COLS]): five are appended.
anomaly_add_physics(columns) ==
    columns \o << "feat_dpf_delta", "feat_nox_ratio", "feat_pressure_per_duty",
                  "feat_current_per_pressure", "feat_scr_temp_delta" >>

\* np.concatenate([w.mean().values, w.std().values]) for w = df.iloc[i : i + 6]:
\* each component is named by its statistic and its column, the window by
\* the indices (from 0) of its first and last row.
window_vector(i, columns) ==
    [ first |-> i, last |-> i + ANOMALY_WINDOW - 1,
      components |-> [ k \in DOMAIN columns |-> <<"mean", columns[k]>> ]
                     \o [ k \in DOMAIN columns |-> <<"std", columns[k]>> ] ]

\* Variant: the last window is left out, range(len(df) - ANOMALY_WINDOW).
anomaly_window_features_short(n, columns) ==
    [ k \in 1..(n - ANOMALY_WINDOW) |-> window_vector(k - 1, columns) ]

\* for i in range(len(df) - ANOMALY_WINDOW + 1): rows.append(...)
anomaly_window_features(n, columns) ==
    [ k \in 1..(n - ANOMALY_WINDOW + 1) |-> window_vector(k - 1, columns) ]

W_7D == 288 * 7
W_30D == 288 * 30

\* pd.DataFrame(records) of records without missing values.
DataFrame(groups) == [ g \in DOMAIN groups |-> [rows |-> groups[g], nan |-> 0] ]

len(df) == SumSeq([ g \in DOMAIN df |-> df[g].rows ])

\* df.groupby("vehicle_id")[column].rolling(window)...: in every group the
\* first window - 1 rows have no full window behind them and get NaN.
rolling(df, window) ==
    [ g \in DOMAIN df |->
        [df[g] EXCEPT !.nan = Max2(@, Min2(df[g].rows, window - 1))] ]

\* df.ffill().bfill().fillna(0): every NaN is replaced, every row stays.
fillna(df) == [ g \in DOMAIN df |-> [df[g] EXCEPT !.nan = 0] ]

\* df.dropna(): the rows holding a NaN are removed.
dropna(df) == [ g \in DOMAIN df |-> [rows |-> df[g].rows - df[g].nan, nan |-> 0] ]

\* Variant: the rows holding a NaN are dropped, as the standalone SCR API does.
scr_engineer_features_dropna(df) == dropna(rolling(rolling(df, W_7D), W_30D))

\* unified_api.scr_engineer_features on a frame that has the sensor columns.
scr_engineer_features(df) == fillna(rolling(rolling(df, W_7D), W_30D))

\* scr_prediction_api.engineer_features
engineer_features(df) == dropna(rolling(rolling(df, W_7D), W_30D))

SEQ_LEN == 288 * 7

\* scr_prediction_api.predict on the records grouped by vehicle; out is what
\* the model returns (rul_hours, prob).
predict(groups, out) ==
    IF len(DataFrame(groups)) < SEQ_LEN THEN HTTPException(400)
    ELSE IF len(engineer_features(DataFrame(groups))) < SEQ_LEN THEN HTTPException(400)
    ELSE Returns([ RUL_hours |-> Max2(out.rul_hours, 0),
                   predicted_time_to_intervention_days |-> Max2(out.rul_hours, 0) \div 24,
                   probability_of_failure_within_21d |-> out.prob ])

predict_dpf(w, out) ==
    IF w.rows < DPF_SEQ_LEN THEN HTTPException(400)
    ELSE Returns(signal_correction("dpf", out, dpf_signal_health_score(w.signals[1].dpf)))

\* scr_engineer_features raises a KeyError on a frame without the sensor
\* columns; predict_scr turns every exception of it into a 400.
predict_scr(w, out) ==
    IF "sensors" \notin w.columns THEN HTTPException(400)
    ELSE IF len(scr_engineer_features(DataFrame(<<w.rows>>))) < SCR_SEQ_LEN THEN HTTPException(400)
    ELSE Returns(signal_correction("scr", out, scr_signal_health_score(w.signals[1].scr)))

\* synthesize_missing_oil_cols: the three oil inputs are derived from sensor
\* columns when they are absent, one np.random.normal draw each.
OilInputs == {"fuel_consumption_lph", "exhaust_backpressure_kpa", "boost_pressure_kpa"}
NoiseVectors == Cardinality(OilInputs)

oil_inputs_missing(w) == "oil_inputs" \notin w.columns

\* The derivation reads sensor columns: a KeyError on a frame without them.
synthesize_raises(w) == oil_inputs_missing(w) /\ "sensors" \notin w.columns

oil_window(w) ==
    [ n |-> w.rows,
      level_mean |-> w.signals[1].oil.level_mean,
      pressure_mean |-> w.signals[1].oil.pressure_mean,
      level_change |-> w.signals[1].oil.level_change,
      pressure_slope |-> w.signals[1].oil.pressure_slope ]

\* Variant: the Oil endpoint checks the length against the DPF minimum.
predict_oil_checked_day(w, out) ==
    IF w.rows < DPF_SEQ_LEN THEN HTTPException(400)
    ELSE Returns(signal_correction("oil", out, oil_signal_health_score(oil_window(w))))

\* predict_oil from the length check on, after synthesize_missing_oil_cols.
predict_oil_checked(w, out) ==
    IF w.rows < OIL_SEQ_LEN THEN HTTPException(400)
    ELSE Returns(signal_correction("oil", out, oil_signal_health_score(oil_window(w))))

predict_anomaly(w, worst_score) ==
    IF w.rows < ANOMALY_WINDOW THEN HTTPException(400)
    ELSE Returns(AnomalyResult(worst_score))

\* One try/except block of predict_all: the result of the call is appended, or
\* the error record when the call raised.
record_call(rs, model, call) ==
    IF call.kind = "return" THEN record_result(rs, call.value[1])
    ELSE record_error(rs, model)

\* predict_all from line 802 on.
aggregate(rs) ==
    IF aggregation_impossible(rs) THEN HTTPException(500)
    ELSE Returns(UnifiedResponse(rs))

(***************************************************************************)
(* The pure functions called on their own (specification SpecCalc)         *)
(***************************************************************************)

\* Rows of the two DPF pressure columns, in hundredths of a kPa.
PressureRows == [upstream : {300, 700, 1200}, downstream : {300, 700, 2500}]

PressureWindows == [1..2 -> PressureRows]

\* Row counts around the 7-day window (2016), the 30-day window (8640) and
\* their sum, and frames of one vehicle and of two.
RowCounts == {1, 9, 2015, 2016, 8639, 8640, 10654, 10655}

Groupings ==
    { <<n>> : n \in RowCounts }
    \cup { <<a, b>> : a \in {1, 2016, 8640, 10655}, b \in {1, 2016, 8640, 10655} }

\* What the standalone SCR model can return: a negative RUL is clamped to 0.
ScrModelOutputs ==
    { [rul_hours |-> 480 * Unit, prob |-> 25000],
      [rul_hours |-> (-48) * Unit, prob |-> 75004] }

MaxRows == 9

\* Health scores of a subsystem in a predict_all request: 0.74 and 0.75 give a
\* RUL on either side of 55 days, 0.84996 and 0.86 lie on either side of 0.85.
CoupledHealth == {20000, 50000, 74000, 75000, 84996, 86000, Unit}

CoupledProbs == {25000, 75004}

\* predict_all on subsystems that return what their endpoints compute: h[i] is
\* the health score of the i-th of DPF, SCR, Oil (None: its call raised),
\* p[i] the probability its model returned, a the least window score of the
\* anomaly detector (None: its call raised).
rul_call(rs, model, h, p) ==
    IF h = None THEN record_error(rs, model)
    ELSE record_call(rs, model, Returns(signal_correction(model, [rul_days |-> 0, prob |-> p], h[1])))

anomaly_call(rs, a) ==
    IF a = None THEN record_error(rs, "anomaly")
    ELSE record_call(rs, "anomaly", Returns(AnomalyResult(a[1])))

predict_all(h, p, a) ==
    LET rs == anomaly_call(rul_call(rul_call(rul_call(<<>>, "dpf", h[1], p[1]),
                                             "scr", h[2], p[2]),
                                    "oil", h[3], p[3]), a)
    IN  [results |-> rs, answer |-> aggregate(rs)]

Call(fn, args) == [fn |-> fn, args |-> args, out |-> None]

InitCalc ==
    /\ \/ \E a \in DpfWindows, b \in DpfWindows :
            calc = Call("dpf_signal_health_score", <<a, b>>)
       \/ \E a \in ScrWindows, b \in ScrWindows :
            calc = Call("scr_signal_health_score", <<a, b>>)
       \/ \E a \in OilWindows, b \in OilWindows :
            a.n = b.n /\ calc = Call("oil_signal_health_score", <<a, b>>)
       \/ \E a \in HealthScores, b \in HealthScores :
            calc = Call("health_score_to_rul", <<a, b>>)
       \/ \E p \in ModelProbs, h \in CoarseHealthScores, q \in ModelProbs, g \in CoarseHealthScores :
            calc = Call("corrected_failure_probability", <<p, h, q, g>>)
       \/ \E s \in ScoreLists :
            calc = Call("predict_anomaly", <<s>>)
       \/ \E rows \in PressureWindows :
            calc = Call("dpf_delta_p", <<rows>>)
       \/ \E groups \in Groupings, out \in ModelOutputs :
            calc = Call("scr_engineer_features", <<groups, out>>)
       \/ \E groups \in Groupings, out \in ScrModelOutputs :
            calc = Call("scr_prediction_api.predict", <<groups, out>>)
       \/ \E n \in 0..MaxRows, worst_score \in WorstScores :
            calc = Call("anomaly_window_features", <<n, worst_score>>)
       \/ \E h \in [1..3 -> {None} \cup {Some(x) : x \in CoupledHealth}],
             p \in [1..3 -> CoupledProbs],
             a \in {None} \cup {Some(x) : x \in WorstScores} :
            calc = Call("predict_all", <<h, p, a>>)
    /\ rng = 0
    /\ reqs = <<>>
    /\ pc = "idle"
    /\ results = <<>>
    /\ response = None
    /\ http_error = None

Called(fn) == calc.fn = fn /\ calc.out = None

Return(out) ==
    /\ calc' = [calc EXCEPT !.out = Some(out)]
    /\ UNCHANGED <<rng, reqs>>
    /\ UNCHANGED aggregation_vars

ScoreDPF ==
    /\ Called("dpf_signal_health_score")
    /\ Return([ i \in 1..2 |-> [ scores |-> dpf_scores(calc.args[i]),
                                 health |-> dpf_signal_health_score(calc.args[i]) ] ])

ScoreSCR ==
    /\ Called("scr_signal_health_score")
    /\ Return([ i \in 1..2 |-> [ scores |-> scr_scores(calc.args[i]),
                                 health |-> scr_signal_health_score(calc.args[i]) ] ])

ScoreOil ==
    /\ Called("oil_signal_health_score")
    /\ Return([ i \in 1..2 |-> [ scores |-> oil_scores(calc.args[i]),
                                 health |-> oil_signal_health_score(calc.args[i]) ] ])

HealthToRul ==
    /\ Called("health_score_to_rul")
    /\ Return([ i \in 1..2 |-> health_score_to_rul(calc.args[i]) ])

CorrectProbability ==
    /\ Called("corrected_failure_probability")
    /\ Return(<< corrected_failure_probability(calc.args[1], calc.args[2]),
                 corrected_failure_probability(calc.args[3], calc.args[4]) >>)

ScoreAnomaly ==
    /\ Called("predict_anomaly")
    /\ Return(predict_anomaly_result(calc.args[1]))

\* The pressure differential of the same rows, as each of the three places
\* of the unified API computes it.
PressureDifferential ==
    /\ Called("dpf_delta_p")
    /\ Return([ dpf_delta_p    |-> [ i \in 1..2 |-> dpf_delta_p(calc.args[1][i]) ],
                dp             |-> [ i \in 1..2 |-> dp(calc.args[1][i]) ],
                dp_mean_abs    |-> dp_mean_abs(calc.args[1]),
                feat_dpf_delta |-> [ i \in 1..2 |-> feat_dpf_delta(calc.args[1][i]) ] ])

\* scr_engineer_features on a frame with the sensor columns and, for the
\* records of a single vehicle, predict_scr on them.
EngineerSCR ==
    /\ Called("scr_engineer_features")
    /\ Return([ frame  |-> scr_engineer_features(DataFrame(calc.args[1])),
                answer |-> IF Len(calc.args[1]) = 1
                           THEN Some(predict_scr([ rows |-> calc.args[1][1],
                                                   columns |-> {"sensors"},
                                                   signals |-> Some(HealthyTelemetry) ],
                                                 calc.args[2]))
                           ELSE None ])

\* The endpoint of the standalone SCR API.
PredictSCR ==
    /\ Called("scr_prediction_api.predict")
    /\ Return([ frame  |-> engineer_features(DataFrame(calc.args[1])),
                answer |-> predict(calc.args[1], calc.args[2]) ])

\* The anomaly features of a frame of n rows and predict_anomaly on it.
WindowFeatures ==
    /\ Called("anomaly_window_features")
    /\ Return([ vectors |-> anomaly_window_features(calc.args[1],
                                                    anomaly_add_physics(ANOMALY_RAW_COLS)),
                answer  |-> predict_anomaly([ rows |-> calc.args[1],
                                              columns |-> {"sensors"},
                                              signals |-> Some(HealthyTelemetry) ],
                                            calc.args[2]) ])

PredictAll ==
    /\ Called("predict_all")
    /\ Return(predict_all(calc.args[1], calc.args[2], calc.args[3]))

NextCalc ==
    \/ ScoreDPF
    \/ ScoreSCR
    \/ ScoreOil
    \/ HealthToRul
    \/ CorrectProbability
    \/ ScoreAnomaly
    \/ PressureDifferential
    \/ EngineerSCR
    \/ PredictSCR
    \/ WindowFeatures
    \/ PredictAll

SpecCalc == InitCalc /\ [][NextCalc]_vars

(***************************************************************************)
(* Two requests served concurrently by the worker threads of the server.   *)
(* The only state they share is the global numpy random state: rng counts  *)
(* the vectors drawn since startup, and the vector drawn when rng = k is    *)
(* the (k+1)-th of the stream, written k + 1.                              *)
(***************************************************************************)

Requests == {"a", "b"}
Endpoints == {"dpf", "scr", "oil", "anomaly", "all"}

Request(endpoint, w) ==
    [ endpoint |-> endpoint, window |-> w, pc |-> "received", noise |-> <<>>,
      features |-> None, results |-> <<>>, out |-> None ]

InitEndpoints ==
    /\ reqs \in [Requests -> { Request(e, w) : e \in Endpoints, w \in Windows }]
    /\ rng = 0
    /\ calc = None
    /\ pc = "idle"
    /\ results = <<>>
    /\ response = None
    /\ http_error = None

Finish(r, features, out) ==
    reqs' = [reqs EXCEPT ![r].pc = "done", ![r].features = features, ![r].out = Some(out)]

ServeDPF(r) ==
    /\ reqs[r].endpoint = "dpf" /\ reqs[r].pc = "received"
    /\ \E out \in ModelOutputs :
         LET call == predict_dpf(reqs[r].window, out)
         IN  Finish(r, IF call.kind = "return"
                       THEN Some(Features(reqs[r].window, <<>>)) ELSE None, call)
    /\ UNCHANGED <<calc, rng>>
    /\ UNCHANGED aggregation_vars

ServeSCR(r) ==
    /\ reqs[r].endpoint = "scr" /\ reqs[r].pc = "received"
    /\ \E out \in ModelOutputs :
         LET call == predict_scr(reqs[r].window, out)
         IN  Finish(r, IF call.kind = "return"
                       THEN Some(Features(reqs[r].window, <<>>)) ELSE None, call)
    /\ UNCHANGED <<calc, rng>>
    /\ UNCHANGED aggregation_vars

ServeAnomaly(r) ==
    /\ reqs[r].endpoint = "anomaly" /\ reqs[r].pc = "received"
    /\ \E s \in WorstScores :
         LET call == predict_anomaly(reqs[r].window, s)
         IN  Finish(r, IF call.kind = "return"
                       THEN Some(Features(reqs[r].window, <<>>)) ELSE None, call)
    /\ UNCHANGED <<calc, rng>>
    /\ UNCHANGED aggregation_vars

\* predict_oil up to the first missing column of synthesize_missing_oil_cols.
OilBegin(r) ==
    /\ reqs[r].endpoint = "oil" /\ reqs[r].pc = "received"
    /\ IF synthesize_raises(reqs[r].window)
       THEN Finish(r, None, Raises("KeyError"))
       ELSE reqs' = [reqs EXCEPT ![r].pc =
                IF oil_inputs_missing(reqs[r].window) THEN "synthesize" ELSE "synthesized"]
    /\ UNCHANGED <<calc, rng>>
    /\ UNCHANGED aggregation_vars

\* One np.random.normal(0, sigma, len(out)) of synthesize_missing_oil_cols, in
\* predict_oil called directly or by predict_all.
Synthesize(r) ==
    /\ reqs[r].pc = "synthesize"
    /\ rng' = rng + 1
    /\ reqs' = [reqs EXCEPT ![r].noise = Append(@, rng + 1),
                            ![r].pc = IF Len(reqs[r].noise) + 1 = NoiseVectors
                                      THEN "synthesized" ELSE "synthesize"]
    /\ UNCHANGED calc
    /\ UNCHANGED aggregation_vars

OilFinish(r) ==
    /\ reqs[r].endpoint = "oil" /\ reqs[r].pc = "synthesized"
    /\ \E out \in ModelOutputs :
         LET call == predict_oil_checked(reqs[r].window, out)
         IN  Finish(r, IF call.kind = "return"
                       THEN Some(Features(reqs[r].window, reqs[r].noise)) ELSE None, call)
    /\ UNCHANGED <<calc, rng>>
    /\ UNCHANGED aggregation_vars

\* predict_all: the DPF and SCR blocks and the Oil block up to the first
\* missing column.
AllBegin(r) ==
    /\ reqs[r].endpoint = "all" /\ reqs[r].pc = "received"
    /\ \E d \in ModelOutputs, s \in ModelOutputs :
         LET w  == reqs[r].window
             rs == record_call(record_call(<<>>, "dpf", predict_dpf(w, d)),
                               "scr", predict_scr(w, s))
         IN  reqs' = [reqs EXCEPT
                 ![r].results = IF synthesize_raises(w)
                                THEN record_call(rs, "oil", Raises("KeyError")) ELSE rs,
                 ![r].pc = IF synthesize_raises(w) THEN "anomaly"
                           ELSE IF oil_inputs_missing(w) THEN "synthesize"
                           ELSE "synthesized"]
    /\ UNCHANGED <<calc, rng>>
    /\ UNCHANGED aggregation_vars

\* predict_all: the rest of the Oil block.
AllOil(r) ==
    /\ reqs[r].endpoint = "all" /\ reqs[r].pc = "synthesized"
    /\ \E out \in ModelOutputs :
         LET call == predict_oil_checked(reqs[r].window, out)
         IN  reqs' = [reqs EXCEPT
                 ![r].results = record_call(@, "oil", call),
                 ![r].features = IF call.kind = "return"
                                 THEN Some(Features(reqs[r].window, reqs[r].noise))
                                 ELSE None,
                 ![r].pc = "anomaly"]
    /\ UNCHANGED <<calc, rng>>
    /\ UNCHANGED aggregation_vars

\* predict_all: the Anomaly block and the aggregation.
AllFinish(r) ==
    /\ reqs[r].endpoint = "all" /\ reqs[r].pc = "anomaly"
    /\ \E s \in WorstScores :
         LET rs == record_call(reqs[r].results, "anomaly", predict_anomaly(reqs[r].window, s))
         IN  reqs' = [reqs EXCEPT ![r].results = rs, ![r].pc = "done",
                                  ![r].out = Some(aggregate(rs))]
    /\ UNCHANGED <<calc, rng>>
    /\ UNCHANGED aggregation_vars

NextEndpoints ==
    \/ \E r \in Requests : ServeDPF(r)
    \/ \E r \in Requests : ServeSCR(r)
    \/ \E r \in Requests : ServeAnomaly(r)
    \/ \E r \in Requests : OilBegin(r)
    \/ \E r \in Requests : Synthesize(r)
    \/ \E r \in Requests : OilFinish(r)
    \/ \E r \in Requests : AllBegin(r)
    \/ \E r \in Requests : AllOil(r)
    \/ \E r \in Requests : AllFinish(r)

SpecEndpoints == InitEndpoints /\ [][NextEndpoints]_vars

(***************************************************************************)
(* Vocabulary of the properties.  These definitions read the recorded      *)
(* results as a set of subsystems, independently of the list operations of *)
(* the aggregation above.                                                  *)
(***************************************************************************)

RulSubsystems == {"dpf", "scr", "oil"}

Done == pc = "done"
Resp == response[1]

Recorded(m) == \E i \in 1..Len(results) : results[i].model = m
Res(m) == results[CHOOSE i \in 1..Len(results) : results[i].model = m]
Succeeded(m) == Recorded(m) /\ Res(m).status = "success"

OkRul == { m \in RulSubsystems : Succeeded(m) }
Rul(m) == Res(m).rul_days[1]
Prob(m) == Res(m).failure_probability[1]
Health(m) == Res(m).details[1].signal_health_score

Days(n) == n * Unit
Hundredths(n) == (n * Unit) \div 100

WorstRul == CHOOSE v \in { Rul(m) : m \in OkRul } : \A m \in OkRul : v <= Rul(m)
MaxProb == CHOOSE v \in { Prob(m) : m \in OkRul } : \A m \in OkRul : v >= Prob(m)
Flagged == Succeeded("anomaly") /\ Res("anomaly").is_anomaly = <<TRUE>>

FailureLabel(m) ==
    CASE m = "dpf" -> "dpf_failure"
      [] m = "scr" -> "scr_failure"
      [] m = "oil" -> "oil_failure"

OverrideApplies == Flagged /\ WorstRul > Days(30)
CriticalByRul == { m \in OkRul : Rul(m) < Days(21) }
CriticalByProb == { m \in OkRul : Prob(m) >= Hundredths(60) }
CascadeApplies == Cardinality(CriticalByRul) >= 2 \/ Cardinality(CriticalByProb) >= 2
Degraded == { m \in OkRul : Rul(m) < Days(70) /\ Health(m) < Hundredths(85) }

\* The decision reached the failure branches past the cascade rule.
PastCascade == Done /\ ~OverrideApplies /\ WorstRul < Days(55) /\ ~CascadeApplies

(***************************************************************************)
(* C1.  In every unified result prediction_type is "anomaly" exactly when  *)
(* the anomaly subsystem flagged an anomaly and the minimum rul_days of    *)
(* the successful DPF/SCR/Oil results is strictly greater than 30.         *)
(***************************************************************************)
C1_AnomalyOverride ==
    Done => (Resp.predictionType = "anomaly" <=> (Flagged /\ WorstRul > Days(30)))

\* Anomaly flagged with a worst RUL of 40 days: the result is "anomaly".
C1_Witness ==
    /\ Done
    /\ Flagged
    /\ WorstRul = Days(40)
    /\ Resp.predictionType = "anomaly"

(***************************************************************************)
(* C2.  prediction_type is "healthy" exactly when no anomaly is flagged    *)
(* and the worst rul_days is at least 55, whatever the probabilities and   *)
(* health scores; three subsystems at 90 days without anomaly give         *)
(* "healthy" with eta_days 90.                                             *)
(***************************************************************************)
C2_Healthy ==
    Done =>
        /\ Resp.predictionType = "healthy" <=> (~Flagged /\ WorstRul >= Days(55))
        /\ (OkRul = RulSubsystems /\ ~Flagged /\ \A m \in RulSubsystems : Rul(m) = Days(90))
              => (Resp.predictionType = "healthy" /\ Resp.etaDays = Days(90))

\* All three at 90 days, two of them with failure probability >= 0.6 and a degraded
\* health score (the cascade and degraded rules would match): still "healthy".
C2_Witness ==
    /\ Done
    /\ OkRul = RulSubsystems
    /\ ~Flagged
    /\ \A m \in RulSubsystems : Rul(m) = Days(90)
    /\ Cardinality(CriticalByProb) >= 2
    /\ \E m \in RulSubsystems : Health(m) < Hundredths(85)
    /\ Resp.predictionType = "healthy"
    /\ Resp.etaDays = Days(90)

(***************************************************************************)
(* C3.  When neither the anomaly override nor the healthy rule applies,    *)
(* prediction_type is "cascade_failure" exactly when at least two          *)
(* successful subsystems have rul_days < 21 or at least two have           *)
(* failure_probability >= 0.6; DPF and SCR both at 15 days give            *)
(* "cascade_failure" for every Oil result and every anomaly flag.          *)
(***************************************************************************)
C3_Cascade ==
    Done =>
        /\ (~OverrideApplies /\ WorstRul < Days(55))
              => (Resp.predictionType = "cascade_failure" <=> CascadeApplies)
        /\ ({"dpf", "scr"} \subseteq OkRul /\ Rul("dpf") = Days(15) /\ Rul("scr") = Days(15))
              => Resp.predictionType = "cascade_failure"

\* DPF and SCR at 15 days, Oil failed, anomaly flagged: "cascade_failure".
C3_Witness ==
    /\ Done
    /\ OkRul = {"dpf", "scr"}
    /\ Rul("dpf") = Days(15)
    /\ Rul("scr") = Days(15)
    /\ Flagged
    /\ Resp.predictionType = "cascade_failure"

\* The inputs of the fourth listed example: DPF at 10 days with health score 0.5, SCR
\* and Oil at 80 days, everything else left open.
C4_Scenario ==
    /\ Done
    /\ OkRul = RulSubsystems
    /\ Rul("dpf") = Days(10)
    /\ Health("dpf") = Hundredths(50)
    /\ Rul("scr") = Days(80)
    /\ Rul("oil") = Days(80)

C5_DegradedPreference ==
    (PastCascade /\ Degraded # {}) =>
        \E m \in Degraded :
            /\ \A k \in Degraded : Rul(m) <= Rul(k)
            /\ Resp.predictionType = FailureLabel(m)

\* A subsystem outside the degraded set has both a lower rul_days and a higher
\* failure_probability than the one whose label is chosen.
C5_Witness ==
    /\ PastCascade
    /\ \E m \in Degraded, k \in OkRul \ Degraded :
          /\ Rul(k) < Rul(m)
          /\ Prob(k) > Prob(m)
          /\ Prob(k) >= Hundredths(55)
          /\ \A d \in Degraded \ {m} : Rul(d) > Rul(m)
          /\ Resp.predictionType = FailureLabel(m)

(***************************************************************************)
(* C6.  Past the anomaly, healthy and cascade rules, when no successful    *)
(* subsystem has both rul_days < 70 and health_score < 0.85,               *)
(* prediction_type is the label of a subsystem with the highest            *)
(* failure_probability if that probability is >= 0.55, and otherwise the   *)
(* label of a subsystem with the minimum rul_days.                         *)
(***************************************************************************)
C6_ProbabilityFallback ==
    (PastCascade /\ Degraded = {}) =>
        IF MaxProb >= Hundredths(55)
        THEN \E m \in OkRul : Prob(m) = MaxProb /\ Resp.predictionType = FailureLabel(m)
        ELSE \E m \in OkRul : Rul(m) = WorstRul /\ Resp.predictionType = FailureLabel(m)

\* The most probable subsystem (exactly 0.55) is not the one with the worst RUL, and
\* its label is chosen.
C6_Witness ==
    /\ PastCascade
    /\ Degraded = {}
    /\ MaxProb = Hundredths(55)
    /\ \E m \in OkRul :
          /\ Prob(m) = MaxProb
          /\ Rul(m) > WorstRul
          /\ \A k \in OkRul \ {m} : Prob(k) < MaxProb
          /\ Resp.predictionType = FailureLabel(m)

(***************************************************************************)
(* C7.  In every unified result eta_days is the minimum rul_days over the  *)
(* DPF/SCR/Oil subsystems that succeeded, on every decision branch.        *)
(***************************************************************************)
C7_EtaIsWorstRul ==
    Done => Resp.etaDays = WorstRul

\* prediction_type names a subsystem other than the one with the minimum rul_days.
C7_Witness ==
    /\ Done
    /\ Cardinality(OkRul) >= 2
    /\ \E m \in OkRul :
          /\ Resp.predictionType = FailureLabel(m)
          /\ Rul(m) > WorstRul
    /\ Resp.etaDays = WorstRul

(***************************************************************************)
(* C8.  In every unified result confidence is the maximum                  *)
(* failure_probability over the successful subsystems when no anomaly is   *)
(* flagged and min(1.0, maximum + 0.10) when one is; it lies in [0, 1].    *)
(***************************************************************************)
C8_Confidence ==
    Done =>
        /\ Resp.confidence =
              IF Flagged
              THEN (IF MaxProb + Hundredths(10) > Unit THEN Unit ELSE MaxProb + Hundredths(10))
              ELSE MaxProb
        /\ Resp.confidence >= 0
        /\ Resp.confidence <= Unit

\* Anomaly flagged with a maximum probability of 0.95: confidence is capped at 1.0.
C8_Witness ==
    /\ Done
    /\ Flagged
    /\ MaxProb = Hundredths(95)
    /\ Resp.confidence = Unit

(***************************************************************************)
(* C9.  predict_all returns a unified result exactly when at least one of  *)
(* DPF, SCR and Oil succeeded; when all three fail the request ends in a   *)
(* fatal error without a result, even if the anomaly subsystem succeeded.  *)
(* A failed subsystem appears in the result with status "error" and        *)
(* contributes to none of eta_days, confidence and prediction_type.        *)
(***************************************************************************)
C9_PartialFailure ==
    /\ pc \in {"done", "fatal"} => (pc = "done" <=> OkRul # {})
    /\ pc = "done" =>
          /\ response # None
          /\ http_error = None
          /\ \A m \in RulSubsystems \ OkRul :
                /\ Resp.modelOutputs[m].status = "error"
                /\ Resp.modelOutputs[m].rul_days = None
                /\ Resp.modelOutputs[m].failure_probability = None
                /\ Resp.predictionType # FailureLabel(m)
          /\ Resp.etaDays \in { Rul(m) : m \in OkRul }
          /\ \E m \in OkRul :
                Resp.confidence \in { Prob(m), Unit, Prob(m) + Hundredths(10) }
          /\ Resp.predictionType \in
                {"anomaly", "healthy", "cascade_failure"} \cup { FailureLabel(m) : m \in OkRul }
    /\ pc = "fatal" =>
          /\ response = None
          /\ http_error = <<500>>

\* All three RUL subsystems failed while the anomaly subsystem succeeded and flagged
\* an anomaly: the request ended in the fatal error.
C9_Witness ==
    /\ pc = "fatal"
    /\ OkRul = {}
    /\ Flagged
    /\ response = None

(***************************************************************************)
(* C10.  Within one request, a step never changes a result recorded        *)
(* earlier: whether a later subsystem succeeds or fails, the entries       *)
(* already in the list stay as they were, each step adds exactly the       *)
(* entry of the subsystem it calls, and the response reports every         *)
(* recorded entry unchanged.                                               *)
(***************************************************************************)
C10_Frame ==
    [][ /\ pc \in {"dpf", "scr", "oil", "anomaly"} =>
              /\ Len(results') = Len(results) + 1
              /\ SubSeq(results', 1, Len(results)) = results
              /\ results'[Len(results')].model = pc
        /\ pc = "aggregate" => results' = results
        /\ pc' = "done" =>
              /\ response'[1].individualResults = results
              /\ \A i \in 1..Len(results) :
                    LET r == results[i]
                        o == response'[1].modelOutputs[r.model]
                    IN  /\ o.status = r.status
                        /\ o.rul_days = r.rul_days
                        /\ o.failure_probability = r.failure_probability
                        /\ o.details = r.details
      ]_vars

\* DPF and Oil succeeded, SCR failed, and the response was produced.
C10_Witness ==
    /\ Done
    /\ OkRul = {"dpf", "oil"}
    /\ Res("scr").status = "error"
    /\ Resp.modelOutputs["dpf"].rul_days = Res("dpf").rul_days
    /\ Resp.modelOutputs["oil"].rul_days = Res("oil").rul_days

\* C11: in every predict_all request the four subsystem endpoints are called
\* once each in the order DPF, SCR, Oil, Anomaly, whether the calls before
\* succeeded or failed, and the aggregation starts only when all four calls
\* have been recorded: the list of results is always the calls made so far, in
\* that order, one entry per call, and the request is at the call that comes
\* next.
CallOrder == <<"dpf", "scr", "oil", "anomaly">>

C11_CallOrder ==
    /\ Len(results) <= Len(CallOrder)
    /\ \A i \in 1..Len(results) : results[i].model = CallOrder[i]
    /\ Len(results) < Len(CallOrder) => pc = CallOrder[Len(results) + 1]
    /\ Len(results) = Len(CallOrder) => pc \in {"aggregate", "done", "fatal"}

C11_Witness ==
    /\ pc = "aggregate"
    /\ results[1].status = "error"
    /\ results[2].status = "success"
    /\ results[3].status = "error"
    /\ results[4].status = "success"

\* C12: the prediction_type of every unified result is one of healthy, anomaly,
\* dpf_failure, scr_failure, oil_failure and cascade_failure, whichever
\* subsystems succeeded or failed and whatever they returned.
PredictionTypes ==
    {"healthy", "anomaly", "dpf_failure", "scr_failure", "oil_failure", "cascade_failure"}

C12_PredictionType == Done => Resp.predictionType \in PredictionTypes

C12_Witness ==
    /\ Done
    /\ OkRul = {"scr"}
    /\ ~Succeeded("anomaly")
    /\ Resp.predictionType = "scr_failure"

\* C21: when the anomaly call of a predict_all request fails while at least one
\* of DPF, SCR and Oil succeeds, the request still ends with a unified result,
\* in which the anomaly counts as not flagged: confidence is the highest
\* failure_probability without the 0.10 increment, prediction_type is not
\* "anomaly", and the result carries no anomaly signal.
C21_AnomalyFailed ==
    (/\ pc \in {"done", "fatal"}
     /\ Res("anomaly").status = "error"
     /\ OkRul # {})
        => /\ Done
           /\ response # None
           /\ Resp.confidence = MaxProb
           /\ Resp.predictionType # "anomaly"
           /\ Resp.signals = None
           /\ Resp.modelOutputs["anomaly"].status = "error"

\* The anomaly call failed, the worst RUL is above 30 days and the highest
\* probability is 0.95: a flagged anomaly would have changed both outputs.
C21_Witness ==
    /\ Done
    /\ Res("anomaly").status = "error"
    /\ OkRul = {"scr"}
    /\ WorstRul = Days(40)
    /\ MaxProb = Hundredths(95)
    /\ Resp.confidence = Hundredths(95)
    /\ Resp.predictionType = "scr_failure"

\* C27: when prediction_type is dpf_failure, scr_failure or oil_failure, the
\* subsystem it names succeeded in this request and is reported as successful
\* in the result.
C27_LabelSucceeded ==
    Done =>
        \A m \in RulSubsystems :
            Resp.predictionType = FailureLabel(m) =>
                /\ Succeeded(m)
                /\ Resp.modelOutputs[m].status = "success"

\* Only Oil succeeded; the result names it.
C27_Witness ==
    /\ Done
    /\ OkRul = {"oil"}
    /\ Res("dpf").status = "error"
    /\ Res("scr").status = "error"
    /\ Resp.predictionType = "oil_failure"

\* The first subsystem of a set in the order DPF, SCR, Oil.
FirstInOrder(S) ==
    IF "dpf" \in S THEN "dpf" ELSE IF "scr" \in S THEN "scr" ELSE "oil"

LeastRulAmong(S) == { m \in S : \A k \in S : Rul(m) <= Rul(k) }
MostProbable == { m \in OkRul : Prob(m) = MaxProb }

\* C29: ties are resolved by the order DPF, SCR, Oil.  Past the cascade rule,
\* the subsystem chosen among the degraded ones is the first in that order of
\* those with the least rul_days; without degraded subsystems the
\* probability-fallback winner is the first of those with the highest
\* failure_probability, and the default is the first of those with the
\* minimum rul_days.
C29_TieOrder ==
    PastCascade =>
        Resp.predictionType = FailureLabel(FirstInOrder(
            IF Degraded # {} THEN LeastRulAmong(Degraded)
            ELSE IF MaxProb >= Hundredths(55) THEN MostProbable
            ELSE LeastRulAmong(OkRul)))

\* SCR and Oil are degraded and share the least rul_days, DPF succeeded with a
\* higher one: the result names SCR.
C29_Witness ==
    /\ PastCascade
    /\ OkRul = RulSubsystems
    /\ LeastRulAmong(Degraded) = {"scr", "oil"}
    /\ Rul("dpf") > Rul("scr")
    /\ Resp.predictionType = "scr_failure"

(***************************************************************************)
(* Properties of the scoring functions (specification SpecCalc)            *)
(***************************************************************************)

Returned(fn) == calc.fn = fn /\ calc.out # None
Out == calc.out[1]

InUnit(x) == 0 <= x /\ x <= Unit

\* The health score is the mean of the indicator scores, to the model unit.
IsMean(o) ==
    /\ Len(o.scores) * o.health <= SumSeq(o.scores)
    /\ SumSeq(o.scores) < Len(o.scores) * (o.health + 1)

ScoresInUnit(o) ==
    /\ \A i \in 1..Len(o.scores) : InUnit(o.scores[i])
    /\ IsMean(o)
    /\ InUnit(o.health)

\* C17: every indicator score of dpf_signal_health_score,
\* scr_signal_health_score and oil_signal_health_score lies in [0, 1] and does
\* not increase when the indicator moves in its worse direction (soot load,
\* failed regenerations, absolute delta-P, downstream NOx, oil level and oil
\* level change upwards; NOx conversion, oil pressure and oil-pressure slope
\* downwards); the health score is the mean of the indicator scores and lies
\* in [0, 1].
C17_IndicatorScores ==
    LET a == calc.args[1]
        b == calc.args[2]
        sa == Out[1].scores
        sb == Out[2].scores
    IN  /\ Returned("dpf_signal_health_score") =>
              /\ ScoresInUnit(Out[1]) /\ ScoresInUnit(Out[2])
              /\ Len(sa) = 3
              /\ a.soot_mean <= b.soot_mean => sa[1] >= sb[1]
              /\ a.regen_last <= b.regen_last => sa[2] >= sb[2]
              /\ Abs(a.dp_mean) <= Abs(b.dp_mean) => sa[3] >= sb[3]
        /\ Returned("scr_signal_health_score") =>
              /\ ScoresInUnit(Out[1]) /\ ScoresInUnit(Out[2])
              /\ Len(sa) = 2
              /\ a.conv_mean >= b.conv_mean => sa[1] >= sb[1]
              /\ a.nox_mean <= b.nox_mean => sa[2] >= sb[2]
        /\ Returned("oil_signal_health_score") =>
              /\ ScoresInUnit(Out[1]) /\ ScoresInUnit(Out[2])
              /\ Len(sa) = Len(sb) /\ Len(sa) \in {3, 4}
              /\ a.level_mean <= b.level_mean => sa[1] >= sb[1]
              /\ a.pressure_mean >= b.pressure_mean => sa[2] >= sb[2]
              /\ (Len(sa) = 4 /\ a.level_change <= b.level_change) => sa[3] >= sb[3]
              /\ a.pressure_slope >= b.pressure_slope => sa[Len(sa)] >= sb[Len(sb)]

C17_Witness ==
    /\ Returned("dpf_signal_health_score")
    /\ calc.args[1] = [soot_mean |-> 6250, regen_last |-> 1200, dp_mean |-> -1000]
    /\ calc.args[2] = [soot_mean |-> 12500, regen_last |-> 3600, dp_mean |-> -1800]
    /\ Out[1].scores[1] = Unit \div 2
    /\ Out[1].scores[3] = Unit \div 2
    /\ Out[1].health > 0 /\ Out[1].health < Unit
    /\ Out[2].scores = <<0, 0, 0>>
    /\ Out[2].health = 0

\* C18: health_score_to_rul(1.0) is 90.0, health_score_to_rul(0.0) is 5.0, and
\* for health scores a <= b in [0, 1], health_score_to_rul(a) <=
\* health_score_to_rul(b).
C18_HealthToRul ==
    Returned("health_score_to_rul") =>
        /\ calc.args[1] = Unit => Out[1] = 90 * Unit
        /\ calc.args[1] = 0 => Out[1] = 5 * Unit
        /\ calc.args[1] <= calc.args[2] => Out[1] <= Out[2]

C18_Witness ==
    /\ Returned("health_score_to_rul")
    /\ calc.args = <<Unit \div 2, Unit>>
    /\ Out[1] > 5 * Unit
    /\ Out[1] < Out[2]
    /\ Out[2] = 90 * Unit

\* C19: for model_prob and health_score in [0, 1],
\* corrected_failure_probability is 0.4 * model_prob + 0.6 * (1 - health_score)
\* clipped to [0, 1] and rounded to four decimals (a multiple of 0.0001 at most
\* 0.00005 away from it), lies in [0, 1], does not decrease when model_prob
\* increases and does not increase when health_score increases.
Blend(p, h) == 4 * p + 6 * (Unit - h)

IsCorrected(r, p, h) ==
    LET clipped == IF Blend(p, h) < 0 THEN 0
                   ELSE IF Blend(p, h) > 10 * Unit THEN 10 * Unit ELSE Blend(p, h)
    IN  /\ r % 10 = 0
        /\ Abs(10 * r - clipped) <= 50
        /\ InUnit(r)

C19_CorrectedProbability ==
    Returned("corrected_failure_probability") =>
        LET p == calc.args[1]
            h == calc.args[2]
            q == calc.args[3]
            g == calc.args[4]
        IN  /\ IsCorrected(Out[1], p, h)
            /\ IsCorrected(Out[2], q, g)
            /\ (p <= q /\ h = g) => Out[1] <= Out[2]
            /\ (p = q /\ h <= g) => Out[1] >= Out[2]

C19_Witness ==
    /\ Returned("corrected_failure_probability")
    /\ calc.args = <<54996, 84996, 75004, 84996>>
    /\ Out[1] = 31000
    /\ Out[2] = 39000

LeastScore(s) == CHOOSE v \in { s[i] : i \in 1..Len(s) } : \A i \in 1..Len(s) : v <= s[i]

AnomalyVerdict(s) == \E i \in 1..Len(s) : 1000 * s[i] < -105 * Unit

\* The statement of C20 as written: the reported anomaly_score is the least
\* window score itself.
C20_Original ==
    Returned("predict_anomaly") =>
        /\ Out.result.is_anomaly = Some(AnomalyVerdict(calc.args[1]))
        /\ Out.result.anomaly_score = Some(LeastScore(calc.args[1]))

\* C20: predict_anomaly sets is_anomaly exactly when some window score is
\* strictly below -0.105 (a least score of exactly -0.105 is not flagged), and
\* the reported anomaly_score is the least window score rounded to four
\* decimals.
C20_Amended ==
    Returned("predict_anomaly") =>
        /\ Out.result.is_anomaly = Some(AnomalyVerdict(calc.args[1]))
        /\ Out.result.anomaly_score = Some(Round4(LeastScore(calc.args[1])))
        /\ calc.args[1][Out.window_index + 1] = LeastScore(calc.args[1])

C20_Witness ==
    /\ Returned("predict_anomaly")
    /\ calc.args[1] = <<-9000, -10501, -10500>>
    /\ Out.result.is_anomaly = Some(TRUE)
    /\ Out.result.anomaly_score = Some(-10500)
    /\ Out.window_index = 1

(***************************************************************************)
(* C22.  The statement as claimed: the DPF feature builder (dpf_delta_p),  *)
(* the DPF health score (dp) and the anomaly physics feature               *)
(* (feat_dpf_delta) subtract the two pressure columns in the same order,   *)
(* so that on the same rows the three differentials are equal.             *)
(***************************************************************************)
C22_SameSign ==
    Returned("dpf_delta_p") =>
        \A i \in 1..2 :
            /\ Out.dpf_delta_p[i] = Out.dp[i]
            /\ Out.dp[i] = Out.feat_dpf_delta[i]

(***************************************************************************)
(* C23.  scr_engineer_features of the unified API returns as many rows as  *)
(* its input has, vehicle by vehicle and none of them with a NaN left,     *)
(* also for inputs shorter than the 7-day (2016) or 30-day (8640) window;  *)
(* predict_scr on the records of one vehicle is answered with a result     *)
(* exactly when there are at least 2016 of them.                           *)
(***************************************************************************)
C23_RowsPreserved ==
    Returned("scr_engineer_features") =>
        /\ len(Out.frame) = SumSeq(calc.args[1])
        /\ Len(Out.frame) = Len(calc.args[1])
        /\ \A g \in 1..Len(calc.args[1]) :
              Out.frame[g] = [rows |-> calc.args[1][g], nan |-> 0]
        /\ Len(calc.args[1]) = 1 =>
              /\ Out.answer # None
              /\ Out.answer[1].kind = "return" <=> calc.args[1][1] >= 2016
              /\ calc.args[1][1] < 2016 => Out.answer[1] = HTTPException(400)

C23_Witness ==
    /\ Returned("scr_engineer_features")
    /\ calc.args[1] = <<2016>>
    /\ len(Out.frame) = 2016
    /\ Out.answer[1].kind = "return"

(***************************************************************************)
(* C24.  The statement as claimed: the standalone SCR API answers every    *)
(* request of at least 2016 records of a single vehicle with a prediction. *)
(***************************************************************************)
C24_Accepted ==
    (/\ Returned("scr_prediction_api.predict")
     /\ Len(calc.args[1]) = 1
     /\ calc.args[1][1] >= 2016)
        => Out.answer.kind = "return"

(***************************************************************************)
(* C25.  For a frame of N >= 6 rows the anomaly feature builder returns    *)
(* N - 5 vectors, the i-th (from 0) built from the rows i..i+5, each of 42 *)
(* components: the means of the 21 columns (16 raw, 5 physics) and then    *)
(* their standard deviations; predict_anomaly goes on to a result.  For    *)
(* N < 6 there is no vector and predict_anomaly answers 400.               *)
(***************************************************************************)
C25_WindowFeatures ==
    Returned("anomaly_window_features") =>
        LET N == calc.args[1]
            columns == ANOMALY_RAW_COLS \o << "feat_dpf_delta", "feat_nox_ratio",
                           "feat_pressure_per_duty", "feat_current_per_pressure",
                           "feat_scr_temp_delta" >>
        IN  /\ Len(columns) = 21
            /\ N >= 6 =>
                  /\ Len(Out.vectors) = N - 5
                  /\ Out.answer.kind = "return"
            /\ N < 6 =>
                  /\ Out.vectors = <<>>
                  /\ Out.answer = HTTPException(400)
            /\ \A i \in 0..(Len(Out.vectors) - 1) :
                  LET v == Out.vectors[i + 1]
                  IN  /\ v.first = i
                      /\ v.last = i + 5
                      /\ v.last <= N - 1
                      /\ Len(v.components) = 42
                      /\ \A k \in 1..21 :
                            /\ v.components[k] = <<"mean", columns[k]>>
                            /\ v.components[21 + k] = <<"std", columns[k]>>

C25_Witness ==
    /\ Returned("anomaly_window_features")
    /\ calc.args[1] = 8
    /\ Len(Out.vectors) = 3
    /\ Out.vectors[3].first = 2
    /\ Out.vectors[3].last = 7
    /\ Out.answer.kind = "return"

\* The results of a predict_all call on subsystems that report the RUL of
\* their own health score.
Unified == Returned("predict_all") /\ Out.answer.kind = "return"
UnifiedResult == Out.answer.value[1]
ResultOf(m) == Out.results[CHOOSE i \in 1..Len(Out.results) : Out.results[i].model = m]
OkSubsystems == { m \in RulSubsystems : ResultOf(m).status = "success" }
RulOf(m) == ResultOf(m).rul_days[1]
ProbOf(m) == ResultOf(m).failure_probability[1]
HealthReported(m) == ResultOf(m).details[1].signal_health_score
LeastRul == CHOOSE v \in { RulOf(m) : m \in OkSubsystems } : \A m \in OkSubsystems : v <= RulOf(m)
AnomalyFlagged == ResultOf("anomaly").status = "success" /\ ResultOf("anomaly").is_anomaly = <<TRUE>>
CascadeHolds ==
    \/ Cardinality({ m \in OkSubsystems : RulOf(m) < Days(21) }) >= 2
    \/ Cardinality({ m \in OkSubsystems : ProbOf(m) >= Hundredths(60) }) >= 2
WorstSubsystem == FirstInOrder({ m \in OkSubsystems : RulOf(m) = LeastRul })

(***************************************************************************)
(* C26.  When every successful subsystem reports the RUL that              *)
(* health_score_to_rul gives for its health score, and the decision gets   *)
(* past the anomaly override, the healthy rule and the cascade rule, the   *)
(* worst-RUL subsystem has a health score below 0.85 and prediction_type   *)
(* is its label.                                                           *)
(***************************************************************************)
C26_WorstLabel ==
    (/\ Unified
     /\ ~(AnomalyFlagged /\ LeastRul > Days(30))
     /\ LeastRul < Days(55)
     /\ ~CascadeHolds)
        => /\ HealthReported(WorstSubsystem) < Hundredths(85)
           /\ RulOf(WorstSubsystem) < Days(70)
           /\ UnifiedResult.predictionType = FailureLabel(WorstSubsystem)

\* SCR is the worst subsystem, DPF has the highest failure probability.
C26_Witness ==
    /\ Unified
    /\ calc.args[1] = <<Some(75000), Some(74000), Some(Unit)>>
    /\ calc.args[2] = <<75004, 25000, 25000>>
    /\ ProbOf("dpf") > ProbOf("scr")
    /\ ~AnomalyFlagged
    /\ ~CascadeHolds
    /\ LeastRul < Days(55)
    /\ UnifiedResult.predictionType = "scr_failure"

(***************************************************************************)
(* C30.  health_score_to_rul maps every health score in [0, 1] into        *)
(* [5, 90] days; hence every successful DPF, SCR or Oil result of a        *)
(* predict_all call has rul_days in [5, 90], and so has eta_days of the    *)
(* unified result.                                                         *)
(***************************************************************************)
C30_RulRange ==
    /\ Returned("health_score_to_rul") =>
          \A i \in 1..2 :
              InUnit(calc.args[i]) => (Days(5) <= Out[i] /\ Out[i] <= Days(90))
    /\ Returned("predict_all") =>
          /\ \A m \in OkSubsystems : Days(5) <= RulOf(m) /\ RulOf(m) <= Days(90)
          /\ Unified =>
                /\ Days(5) <= UnifiedResult.etaDays
                /\ UnifiedResult.etaDays <= Days(90)
                /\ UnifiedResult.etaDays = LeastRul

C30_Witness ==
    /\ Unified
    /\ calc.args[1] = <<Some(Unit), None, Some(20000)>>
    /\ RulOf("dpf") = Days(90)
    /\ UnifiedResult.etaDays < Days(10)

(***************************************************************************)
(* Properties of the subsystem endpoints (specification SpecEndpoints)     *)
(***************************************************************************)

Finished(r) == reqs[r].pc = "done"
Answer(r) == reqs[r].out[1]
Answered(r) == Finished(r) /\ Answer(r).kind = "return"
SameTelemetry(a, b) ==
    reqs[a].endpoint = reqs[b].endpoint /\ reqs[a].window = reqs[b].window

HealthOf(res) == res.details[1].signal_health_score

\* C13: two requests with the same telemetry get the same health score and the
\* same rul_days from each of DPF, SCR and Oil, and the same eta_days from
\* predict_all, whatever the trained models return to either of them.
C13_TelemetryOnly ==
    \A a \in Requests, b \in Requests :
        (Answered(a) /\ Answered(b) /\ SameTelemetry(a, b)) =>
            LET x == Answer(a).value[1]
                y == Answer(b).value[1]
            IN  /\ reqs[a].endpoint \in RulSubsystems =>
                      /\ HealthOf(x) = HealthOf(y)
                      /\ x.rul_days = y.rul_days
                /\ reqs[a].endpoint = "all" =>
                      /\ x.etaDays = y.etaDays
                      /\ \A m \in RulSubsystems :
                            x.modelOutputs[m].status = "success" =>
                              /\ y.modelOutputs[m].status = "success"
                              /\ x.modelOutputs[m].rul_days = y.modelOutputs[m].rul_days
                              /\ HealthOf(x.modelOutputs[m]) = HealthOf(y.modelOutputs[m])

C13_Witness ==
    /\ Answered("a") /\ Answered("b")
    /\ reqs["a"].endpoint = "all"
    /\ SameTelemetry("a", "b")
    /\ reqs["a"].window.rows = OIL_SEQ_LEN
    /\ reqs["a"].window.signals = Some(WornTelemetry)
    /\ \A m \in RulSubsystems :
          /\ Answer("a").value[1].modelOutputs[m].status = "success"
          /\ Answer("a").value[1].modelOutputs[m].failure_probability
               # Answer("b").value[1].modelOutputs[m].failure_probability
    /\ Answer("a").value[1].etaDays = Answer("b").value[1].etaDays
    /\ Answer("a").value[1].etaDays < 90 * Unit

\* C14: for the same telemetry window each feature builder hands the same
\* array to its model on every run, the Oil builder with fuel_consumption,
\* exhaust_backpressure or boost_pressure absent included.
C14_Deterministic ==
    \A a \in Requests, b \in Requests :
        (reqs[a].features # None /\ reqs[b].features # None /\ SameTelemetry(a, b))
            => reqs[a].features = reqs[b].features

\* The array a request hands to a model when it is the only request served
\* since startup.
FeaturesAlone(r) ==
    Features(reqs[r].window,
             IF reqs[r].endpoint \in {"oil", "all"} /\ "oil_inputs" \notin reqs[r].window.columns
             THEN <<1, 2, 3>> ELSE << >>)

\* C15: requests write no process-wide state, and what a request computes is
\* the same under every interleaving with other requests as when it is served
\* alone.
C15_NoSharedState ==
    /\ rng = 0
    /\ \A r \in Requests :
          reqs[r].features # None => reqs[r].features[1] = FeaturesAlone(r)

MinimumRows(endpoint) ==
    CASE endpoint = "dpf" -> 288
      [] endpoint = "scr" -> 2016
      [] endpoint = "oil" -> 2016
      [] endpoint = "anomaly" -> 6

\* C16: a subsystem endpoint answers every window with fewer rows than its
\* minimum (288 for DPF, 2016 for SCR and Oil, 6 for Anomaly), the empty
\* window included, with an HTTPException of status 400, never with an
\* exception that nothing handles.
C16_ShortWindowRejected ==
    \A r \in Requests :
        (/\ Finished(r)
         /\ reqs[r].endpoint # "all"
         /\ reqs[r].window.rows < MinimumRows(reqs[r].endpoint))
            => /\ Answer(r).kind = "HTTPException"
               /\ Answer(r).status_code = 400

\* C28: in a predict_all request of N rows that have the sensor columns, with
\* models that return, a subsystem succeeds exactly when N reaches its minimum
\* (DPF 288, SCR 2016, Oil 2016, Anomaly 6); a unified result is returned
\* exactly when N >= 288 (otherwise the request ends with status 500), and for
\* 288 <= N < 2016 it is computed from DPF and Anomaly alone: eta_days is the
\* rul_days of DPF and prediction_type is "anomaly", "healthy" or "dpf_failure".
C28_Participation ==
    \A r \in Requests :
        (/\ Finished(r)
         /\ reqs[r].endpoint = "all"
         /\ "sensors" \in reqs[r].window.columns)
            => LET N  == reqs[r].window.rows
                   rs == reqs[r].results
               IN  /\ Len(rs) = 4
                   /\ \A i \in 1..4 :
                         /\ rs[i].model = <<"dpf", "scr", "oil", "anomaly">>[i]
                         /\ rs[i].status = "success" <=> N >= MinimumRows(rs[i].model)
                   /\ Answer(r).kind = "return" <=> N >= 288
                   /\ N < 288 => Answer(r) = HTTPException(500)
                   /\ (288 <= N /\ N < 2016) =>
                         /\ Answer(r).value[1].predictionType \in {"anomaly", "healthy", "dpf_failure"}
                         /\ Answer(r).value[1].etaDays = rs[1].rul_days[1]
                         /\ Answer(r).value[1].confidence \in
                               { rs[1].failure_probability[1],
                                 Min2(Unit, rs[1].failure_probability[1] + Unit \div 10) }

C28_Witness ==
    /\ Finished("a")
    /\ reqs["a"].endpoint = "all"
    /\ reqs["a"].window.rows = 288
    /\ Answer("a").kind = "return"
    /\ reqs["a"].results[2].status = "error"
    /\ reqs["a"].results[3].status = "error"
    /\ reqs["a"].results[4].status = "success"
    /\ Answer("a").value[1].predictionType \in {"anomaly", "dpf_failure"}

====
